---- MODULE Spec2Model ----
(***************************************************************************)
(* A model of MindPulse's backend (src/backend/app.py): the scoring and    *)
(* forecast pipeline behind POST /predict and the flat-file user store     *)
(* behind POST /auth/signup.                                               *)
(*                                                                         *)
(* Numbers.  Python floats are modelled as exact decimals.  A metric value *)
(* v is held in hundredths (2.5 is 250); a weight is held in hundredths    *)
(* too (0.15 is 15), so every product and every sum of the pipeline is an  *)
(* integer number of ten-thousandths (Unit).  Binary rounding error of     *)
(* IEEE doubles is outside the model; overflow to a non-finite double is   *)
(* inside it (the value kind "huge").                                      *)
(*                                                                         *)
(* The generator.  CPython's random module is one process-wide generator.  *)
(* Its state is modelled as [seed, n]: the seed it was last seeded with    *)
(* and the number of draws since.  random() is a fixed function of that    *)
(* state, taken from a small family (gen) of quantised surrogates.         *)
(***************************************************************************)
EXTENDS Integers, Sequences, FiniteSets, TLC

\* ---------------------------------------------------------------- bounds
\* Largest number of recognised keys a generated payload carries.
MaxPresent == 2
\* Sequential /predict requests served in SpecSeq.
MaxReqs == 3
\* random() is quantised to the levels 0/Quant .. Quant/Quant.
Quant == 2
\* Thread switches the scheduler makes between two running requests (SpecConc).
MaxSwitches == 2
\* risk_package is applied to the integers -RiskSpan .. 100 + RiskSpan.
RiskSpan == 50

\* ------------------------------------------------------- numeric helpers
\* Ten-thousandths in one unit: value hundredths times weight hundredths.
Unit == 100 * 100

Max2(a, b) == IF a >= b THEN a ELSE b
Min2(a, b) == IF a <= b THEN a ELSE b

\* clamp(value, low, high): max(low, min(high, value)).
clamp(value, low, high) == Max2(low, Min2(high, value))

\* int(x) of a float x held in ten-thousandths: truncation toward zero.
Trunc(x) == IF x >= 0 THEN x \div Unit ELSE -((-x) \div Unit)

\* floor(x) of a value held in ten-thousandths.
Floor(x) == x \div Unit

\* round(x): Python 3 rounds to the nearest integer, ties to the even one.
RoundHalfEven(x) ==
    LET q == Floor(x)
        r == x - q * Unit
    IN  IF 2 * r < Unit THEN q
        ELSE IF 2 * r > Unit THEN q + 1
        ELSE IF q % 2 = 0 THEN q ELSE q + 1

\* ---------------------------------------------------------------- payload
Keys == << "sleep", "switching", "stress", "workload", "hrv", "deep_work",
           "deep_work_hours", "context_switching", "context_hours",
           "recovery_breaks", "recovery_hours", "overload_hours",
           "overload_hours_count" >>

KeySet == { Keys[i] : i \in 1..Len(Keys) }

\* A JSON value as Python holds it after json.loads.
\*   num     a finite number, val in hundredths
\*   huge    a number literal beyond the range of a double (1e999): float inf
\*   numstr  a string that float() parses, val in hundredths ("3" is 300)
\*   str     a string that float() rejects ("abc")
\*   null    None
\*   bool    True (val 100) or False (val 0)
\*   absent  the key is not in the payload
Num(v) == [kind |-> "num", val |-> v]
Huge == [kind |-> "huge", val |-> 0]
NumStr(v) == [kind |-> "numstr", val |-> v]
BadStr == [kind |-> "str", val |-> 0]
Null == [kind |-> "null", val |-> 0]
BoolTrue == [kind |-> "bool", val |-> 100]
Absent == [kind |-> "absent", val |-> 0]

EmptyPayload == [k \in KeySet |-> Absent]

\* payload.get(key, default), the default given as a whole number.
Get(payload, key, default) ==
    IF payload[key].kind = "absent" THEN Num(default * 100) ELSE payload[key]

\* float(x): the value in hundredths, a non-finite double, or the exception.
Float(x) ==
    CASE x.kind \in {"num", "numstr", "bool"} -> [ok |-> TRUE, fin |-> TRUE, val |-> x.val, err |-> "none"]
      [] x.kind = "huge" -> [ok |-> TRUE, fin |-> FALSE, val |-> 0, err |-> "none"]
      [] x.kind = "str" -> [ok |-> FALSE, fin |-> FALSE, val |-> 0, err |-> "ValueError"]
      [] OTHER -> [ok |-> FALSE, fin |-> FALSE, val |-> 0, err |-> "TypeError"]

\* ------------------------------------------------- double arithmetic
\* A double: finite (c = "fin", v in ten-thousandths) or one of inf, -inf, nan.
Fin(v) == [c |-> "fin", v |-> v]
PosInf == [c |-> "inf", v |-> 0]
NegInf == [c |-> "-inf", v |-> 0]
NaN == [c |-> "nan", v |-> 0]

\* The double a successful float() gave, times a positive weight in hundredths.
Mul(f, w) == IF f.fin THEN Fin(f.val * w) ELSE PosInf

XNeg(a) ==
    CASE a.c = "fin" -> Fin(-a.v)
      [] a.c = "inf" -> NegInf
      [] a.c = "-inf" -> PosInf
      [] OTHER -> NaN

XAdd(a, b) ==
    CASE a.c = "nan" \/ b.c = "nan" -> NaN
      [] a.c = "fin" /\ b.c = "fin" -> Fin(a.v + b.v)
      [] a.c = "fin" -> b
      [] b.c = "fin" -> a
      [] a.c = b.c -> a
      [] OTHER -> NaN

XSub(a, b) == XAdd(a, XNeg(b))

\* ------------------------------------------------------------ compute_mri
Raise(type, arg) == [ok |-> FALSE, val |-> 0, err |-> [type |-> type, arg |-> arg]]
Return(val) == [ok |-> TRUE, val |-> val, err |-> [type |-> "none", arg |-> "none"]]

\* Default with the defaults of deep_work_hours and context_hours exchanged.
DefaultSwapped(key) ==
    CASE key \in {"sleep", "switching", "stress", "workload", "hrv"} -> 5
      [] key \in {"deep_work", "context_switching", "overload_hours"} -> 50
      [] key \in {"context_hours", "overload_hours_count"} -> 4
      [] key = "deep_work_hours" -> 3
      [] key = "recovery_breaks" -> 40
      [] OTHER -> 2

\* The default each float(payload.get(key, default)) of lines 39-51 names.
Default(key) ==
    CASE key \in {"sleep", "switching", "stress", "workload", "hrv"} -> 5
      [] key \in {"deep_work", "context_switching", "overload_hours"} -> 50
      [] key \in {"deep_work_hours", "overload_hours_count"} -> 4
      [] key = "context_hours" -> 3
      [] key = "recovery_breaks" -> 40
      [] OTHER -> 2

\* Metric that puts the default in the place of a value float() rejects.
MetricLenient(payload, key) ==
    LET f == Float(Get(payload, key, Default(key)))
    IN  IF f.ok THEN f ELSE Float(Num(Default(key) * 100))

\* float(payload.get(key, default)) for one key.
Metric(payload, key) == Float(Get(payload, key, Default(key)))

\* Lines 39-51 run in the order of Keys: the first key whose float() raises
\* (its index, 0 when none does) ends the call.
FirstBad(payload) ==
    LET bad == { i \in 1..Len(Keys) : ~Metric(payload, Keys[i]).ok }
    IN  IF bad = {} THEN 0 ELSE CHOOSE i \in bad : \A j \in bad : i <= j

\* Lines 53-57: the score as a double.
Score(payload) ==
    LET m(key) == Metric(payload, key)
        s1 == XAdd(XSub(Fin(100 * Unit),
                        XAdd(XAdd(Mul(m("switching"), 400), Mul(m("stress"), 500)),
                             Mul(m("workload"), 400))),
                   XAdd(Mul(m("sleep"), 500), Mul(m("hrv"), 300)))
        s2 == XAdd(s1, XAdd(Mul(m("deep_work"), 10), Mul(m("deep_work_hours"), 150)))
        s3 == XSub(s2, XAdd(Mul(m("context_switching"), 15), Mul(m("context_hours"), 200)))
        s4 == XAdd(s3, XAdd(Mul(m("recovery_breaks"), 12), Mul(m("recovery_hours"), 200)))
    IN  XSub(s4, XAdd(Mul(m("overload_hours"), 20), Mul(m("overload_hours_count"), 250)))

\* compute_mri(payload): the MRI, or the exception that leaves the function.
\* round() of a non-finite double raises (OverflowError for an infinity,
\* ValueError for a NaN) before clamp is reached.
compute_mri(payload) ==
    LET i == FirstBad(payload)
        score == Score(payload)
    IN  IF i # 0 THEN Raise(Metric(payload, Keys[i]).err, payload[Keys[i]].kind)
        ELSE IF score.c = "nan" THEN Raise("ValueError", "nan")
        ELSE IF score.c # "fin" THEN Raise("OverflowError", "inf")
        ELSE Return(clamp(RoundHalfEven(score.v), 0, 100))

\* ----------------------------------------------------------- risk_package
\* risk_package with both thresholds exclusive.
risk_package_exclusive(mri) ==
    IF mri > 75 THEN
        [label |-> "Healthy", level |-> "healthy", pill |-> "Healthy",
         forecast_label |-> "Low Risk",
         coach_tip |-> "You can push, but keep a 12-minute reset break every 2 hours.",
         recovery_now |-> "Hydration + light stretching recommended now."]
    ELSE IF mri > 55 THEN
        [label |-> "At Risk", level |-> "at-risk", pill |-> "At Risk",
         forecast_label |-> "Elevated Risk",
         coach_tip |-> "You need a 17-minute low-stimulus break. Avoid decision-heavy tasks after 6 PM today.",
         recovery_now |-> "Step away from screens for 8 minutes and take 10 slow breaths."]
    ELSE
        [label |-> "Burnout Incoming", level |-> "danger", pill |-> "Burnout Incoming",
         forecast_label |-> "High Risk",
         coach_tip |-> "Block 45 minutes for recovery, reduce workload intensity, and delay complex tasks.",
         recovery_now |-> "Power nap suggestion: 18 minutes with a quiet timer."]

\* risk_package(mri): the tier record (pill without its emoji).
risk_package(mri) ==
    IF mri >= 75 THEN
        [label |-> "Healthy", level |-> "healthy", pill |-> "Healthy",
         forecast_label |-> "Low Risk",
         coach_tip |-> "You can push, but keep a 12-minute reset break every 2 hours.",
         recovery_now |-> "Hydration + light stretching recommended now."]
    ELSE IF mri >= 55 THEN
        [label |-> "At Risk", level |-> "at-risk", pill |-> "At Risk",
         forecast_label |-> "Elevated Risk",
         coach_tip |-> "You need a 17-minute low-stimulus break. Avoid decision-heavy tasks after 6 PM today.",
         recovery_now |-> "Step away from screens for 8 minutes and take 10 slow breaths."]
    ELSE
        [label |-> "Burnout Incoming", level |-> "danger", pill |-> "Burnout Incoming",
         forecast_label |-> "High Risk",
         coach_tip |-> "Block 45 minutes for recovery, reduce workload intensity, and delay complex tasks.",
         recovery_now |-> "Power nap suggestion: 18 minutes with a quiet timer."]

\* ------------------------------------------------------------- generator
\* The surrogates of random(): gen = <<g0, g1>>.
Gens == (0..Quant) \X (0..Quant)

\* random() in state [seed, n] under surrogate g: a level in 0..Quant.  The
\* level depends on the seed and on the position in the seed's stream, and
\* over the family every pair of levels occurs at every two successive draws.
Level(g, state) ==
    (g[1] + g[2] * state.n + (state.n \div 5) + state.seed) % (Quant + 1)

\* random.uniform(a, b) = a + (b - a) * random(), a and b whole numbers;
\* the result in ten-thousandths.
uniform(a, b, level) == a * Unit + ((b - a) * Unit * level) \div Quant

\* random.seed(seed): the generator restarts at the head of seed's stream.
Seeded(seed) == [seed |-> seed, n |-> 0]

\* The generator after one draw.
Advance(state) == [state EXCEPT !.n = @ + 1]

\* ---------------------------------------------------------------- predict
\* range(7) of build_forecast and the seven labels of weekly_series.
Days == 7
labels == << "Mon", "Tue", "Wed", "Thu", "Fri", "Sat", "Sun" >>

\* ForecastDay without its clamp.
ForecastDayUnclamped(base, day, jitter, context_switching, recovery_breaks, overload_hours) ==
    LET adjust == context_switching * 8 + overload_hours * 10 - recovery_breaks * 6
    IN  Trunc(base + day * 3 * Unit + jitter + adjust)

\* Line 73: one forecast element from day (0-based) and that day's jitter.
ForecastDay(base, day, jitter, context_switching, recovery_breaks, overload_hours) ==
    LET adjust == context_switching * 8 + overload_hours * 10 - recovery_breaks * 6
    IN  Trunc(clamp(base + day * 3 * Unit + jitter + adjust, 0, 100 * Unit))

\* Lines 91-98: day_mri, as a float in ten-thousandths.
DayMri(mri, drift, deep_work, context_switching, recovery_breaks, overload_hours) ==
    clamp(mri * Unit + drift + deep_work * 4 - context_switching * 5
          + recovery_breaks * 3 - overload_hours * 6, 0, 100 * Unit)

\* Lines 100-111: one load element from day_mri and the second draw.
DayLoad(day_mri, jitter, context_switching, recovery_breaks, overload_hours) ==
    Trunc(clamp(100 * Unit - day_mri + overload_hours * 20 + context_switching * 15
                - recovery_breaks * 10 + jitter, 0, 100 * Unit))

\* Lines 154-156: risk_score, as a float in ten-thousandths.
RiskScore(mri, context_switching, recovery_breaks, overload_hours) ==
    clamp(100 * Unit - mri * Unit + context_switching * 12 + overload_hours * 18
          - recovery_breaks * 10, 0, 100 * Unit)

\* SeedOf with round() in the place of int().
SeedOfRounded(mri, risk_score, payload) ==
    LET stress == Get(payload, "stress", 5)
    IN  IF stress.kind \in {"num", "bool"}
        THEN Return(RoundHalfEven(mri * Unit + risk_score + stress.val * 100))
        ELSE Raise("TypeError", stress.kind)

\* Line 157: int(mri + risk_score + payload.get("stress", 5)).  The stress is
\* the raw payload value: adding a str to a float raises TypeError.
SeedOf(mri, risk_score, payload) ==
    LET stress == Get(payload, "stress", 5)
    IN  IF stress.kind \in {"num", "bool"}
        THEN Return(Trunc(mri * Unit + risk_score + stress.val * 100))
        ELSE Raise("TypeError", stress.kind)

\* Lines 160 and 166: round(clamp(0.7 + (mri / 100) * 0.25, 0.7, 0.95), 2), in
\* hundredths; 0.7 + mri * 0.0025 is 7000 + 25 * mri ten-thousandths.
Confidence(mri) == RoundHalfEven(clamp(7000 + 25 * mri, 7000, 9500) * 100)

\* ----------------------------------------------------------------- inputs
\* The values a generated payload gives a key: -200.5, 2.5 and 1000, a number
\* beyond the doubles, "3", "abc", null and true.
Vals == { Num(-20050), Num(250), Num(100000), Huge, NumStr(300), BadStr, Null,
          BoolTrue }

\* The payload that gives the keys of S the values of f and no other key.
PayloadOf(S, f) == [k \in KeySet |-> IF k \in S THEN f[k] ELSE Absent]

\* The low-stress scenario payload: every recognised key present.
Scenario ==
    [k \in KeySet |->
        Num(100 * (CASE k = "sleep" -> 8 [] k = "switching" -> 2 [] k = "stress" -> 2
                     [] k = "workload" -> 3 [] k = "hrv" -> 7 [] k = "deep_work" -> 60
                     [] k = "deep_work_hours" -> 5 [] k = "context_switching" -> 20
                     [] k = "context_hours" -> 1 [] k = "recovery_breaks" -> 70
                     [] k = "recovery_hours" -> 3 [] k = "overload_hours" -> 10
                     [] OTHER -> 1))]

\* The key sets of the generated payloads: at most MaxPresent keys.
KeySubsets == { T \in SUBSET KeySet : Cardinality(T) <= MaxPresent }

\* The payloads of the multi-request specifications: the empty one, the
\* scenario, a strongly negative stress, an exhausted user, a malformed one.
SeqPayloads ==
    { EmptyPayload, Scenario,
      PayloadOf({"stress"}, [k \in {"stress"} |-> Num(-20050)]),
      PayloadOf({"stress", "sleep"}, [k \in {"stress", "sleep"} |-> IF k = "stress" THEN Num(1400) ELSE Num(250)]),
      PayloadOf({"hrv"}, [k \in {"hrv"} |-> BadStr]) }

\* ------------------------------------------------------------------ state
Threads == {1, 2}

VARIABLES
    pc,          \* pc[t]: where worker thread t is in predict()
    loc,         \* loc[t]: the locals of thread t's predict() and its callees
    rng,         \* the state of the process-wide random generator
    gen,         \* the surrogate of random() in force
    quota,       \* /predict requests the clients have yet to send
    history,     \* the /predict exchanges completed, in order of completion
    calls,       \* the build_forecast and weekly_series calls returned, in order
    running,     \* the thread that ran last
    switches,    \* thread switches made while another request was under way
    tier_in,     \* the argument of a direct risk_package call
    tier_out,    \* its result
    users_file,  \* the content of users.json
    signup,      \* signup[t]: thread t's signup() request, locals and position
    signup_log   \* the /auth/signup exchanges completed

vars == << pc, loc, rng, gen, quota, history, calls, running, switches,
           tier_in, tier_out, users_file, signup, signup_log >>

predictVars == << pc, loc, rng, gen, quota, history, calls, running, switches >>
riskVars == << tier_in, tier_out >>
signupVars == << users_file, signup, signup_log >>

NoLocals ==
    [payload |-> EmptyPayload, mri |-> 0, risk_score |-> 0, seed |-> 0,
     context_switching |-> 0, recovery_breaks |-> 0, overload_hours |-> 0,
     deep_work |-> 0, forecast |-> << >>, day_mri |-> 0,
     mri_series |-> << >>, load_series |-> << >>]

\* The generator is seeded from the system's entropy when random is imported.
BootSeeds == {0, 1}

\* ---------------------------------------------------------------- predict
\* The 500 that Flask answers when exception err leaves the handler.
ServerError(err) == [status |-> 500, error |-> err]

\* Lines 162-172: the response assembled from the locals.
Response(l) ==
    LET risk == risk_package(l.mri)
    IN  [status |-> 200,
         mri |-> l.mri,
         risk |-> [label |-> risk.label, level |-> risk.level, pill |-> risk.pill],
         forecast_label |-> risk.forecast_label,
         confidence |-> Confidence(l.mri),
         forecast |-> l.forecast,
         weekly |-> [labels |-> labels, mri |-> l.mri_series, load |-> l.load_series],
         coach_tip |-> risk.coach_tip,
         recovery_now |-> risk.recovery_now,
         error |-> [type |-> "none", arg |-> "none"]]

\* Lines 147-157: the locals predict() holds when it calls build_forecast, or
\* the exception raised on the way.
Prepare(payload) ==
    LET r == compute_mri(payload)
        mri == r.val
        context_switching == Metric(payload, "context_switching").val
        recovery_breaks == Metric(payload, "recovery_breaks").val
        overload_hours == Metric(payload, "overload_hours").val
        deep_work == Metric(payload, "deep_work").val
        risk_score == RiskScore(mri, context_switching, recovery_breaks, overload_hours)
        seed == SeedOf(mri, risk_score, payload)
    IN  IF ~r.ok THEN r
        ELSE IF ~seed.ok THEN seed
        ELSE Return([NoLocals EXCEPT !.payload = payload, !.mri = mri,
                        !.risk_score = risk_score, !.seed = seed.val,
                        !.context_switching = context_switching,
                        !.recovery_breaks = recovery_breaks,
                        !.overload_hours = overload_hours, !.deep_work = deep_work])

\* Thread t may take a step: it ran last, or no other request is under way, or
\* the scheduler still has a switch to make.
Busy(t) == pc[t] # "idle"
MayRun(t) ==
    IF running = t THEN TRUE
    ELSE IF \A u \in Threads \ {t} : ~Busy(u) THEN TRUE
    ELSE switches < MaxSwitches

Schedule(t) ==
    /\ MayRun(t)
    /\ running' = t
    /\ switches' = IF running # t /\ (\E u \in Threads \ {t} : Busy(u))
                   THEN switches + 1 ELSE switches

\* A request arrives at thread t: lines 146-157.  An exception ends it with a
\* 500; otherwise build_forecast is entered.
Begin(t, payload) ==
    /\ pc[t] = "idle"
    /\ quota > 0
    /\ Schedule(t)
    /\ quota' = quota - 1
    /\ LET r == Prepare(payload)
       IN  IF r.ok
           THEN /\ loc' = [loc EXCEPT ![t] = r.val]
                /\ pc' = [pc EXCEPT ![t] = "fc_seed"]
                /\ history' = history
           ELSE /\ history' = Append(history, [payload |-> payload, response |-> ServerError(r.err)])
                /\ UNCHANGED << loc, pc >>
    /\ UNCHANGED << rng, gen, calls, riskVars, signupVars >>

\* FcSeed without its random.seed(seed): the draws go on from the state the
\* generator was left in.
FcSeedMissing(t) ==
    /\ pc[t] = "fc_seed"
    /\ Schedule(t)
    /\ pc' = [pc EXCEPT ![t] = "fc_draw"]
    /\ UNCHANGED << rng, loc, gen, quota, history, calls, riskVars, signupVars >>

\* Line 68: random.seed(seed) in build_forecast.
FcSeed(t) ==
    /\ pc[t] = "fc_seed"
    /\ Schedule(t)
    /\ rng' = Seeded(loc[t].seed)
    /\ pc' = [pc EXCEPT ![t] = "fc_draw"]
    /\ UNCHANGED << loc, gen, quota, history, calls, riskVars, signupVars >>

\* Lines 70-74: one pass of build_forecast's loop; the seventh returns.
FcDraw(t) ==
    /\ pc[t] = "fc_draw"
    /\ Schedule(t)
    /\ LET l == loc[t]
           day == Len(l.forecast)
           jitter == uniform(-4, 4, Level(gen, rng))
           forecast == Append(l.forecast,
                              ForecastDay(l.risk_score, day, jitter, l.context_switching,
                                          l.recovery_breaks, l.overload_hours))
       IN  /\ rng' = Advance(rng)
           /\ loc' = [loc EXCEPT ![t].forecast = forecast]
           /\ IF day + 1 = Days
              THEN /\ pc' = [pc EXCEPT ![t] = "wk_seed"]
                   /\ calls' = Append(calls,
                         [fn |-> "build_forecast",
                          args |-> << l.risk_score, l.seed, l.context_switching,
                                      l.recovery_breaks, l.overload_hours >>,
                          result |-> [forecast |-> forecast]])
              ELSE UNCHANGED << pc, calls >>
    /\ UNCHANGED << gen, quota, history, riskVars, signupVars >>

\* Line 85: random.seed(seed) in weekly_series, called with seed + 7 (line 159).
WkSeed(t) ==
    /\ pc[t] = "wk_seed"
    /\ Schedule(t)
    /\ rng' = Seeded(loc[t].seed + 7)
    /\ pc' = [pc EXCEPT ![t] = "wk_drift"]
    /\ UNCHANGED << loc, gen, quota, history, calls, riskVars, signupVars >>

\* Lines 90-99: the first draw of a day, day_mri and its element.
WkDrift(t) ==
    /\ pc[t] = "wk_drift"
    /\ Schedule(t)
    /\ LET l == loc[t]
           drift == uniform(-6, 6, Level(gen, rng))
           day_mri == DayMri(l.mri, drift, l.deep_work, l.context_switching,
                             l.recovery_breaks, l.overload_hours)
       IN  /\ rng' = Advance(rng)
           /\ loc' = [loc EXCEPT ![t].day_mri = day_mri,
                                 ![t].mri_series = Append(@, Trunc(day_mri))]
    /\ pc' = [pc EXCEPT ![t] = "wk_load"]
    /\ UNCHANGED << gen, quota, history, calls, riskVars, signupVars >>

\* Lines 100-112: the second draw of a day and its load element; the seventh
\* day returns.
WkLoad(t) ==
    /\ pc[t] = "wk_load"
    /\ Schedule(t)
    /\ LET l == loc[t]
           jitter == uniform(-5, 5, Level(gen, rng))
           load_series == Append(l.load_series,
                                 DayLoad(l.day_mri, jitter, l.context_switching,
                                         l.recovery_breaks, l.overload_hours))
       IN  /\ rng' = Advance(rng)
           /\ loc' = [loc EXCEPT ![t].load_series = load_series]
           /\ IF Len(load_series) = Len(labels)
              THEN /\ pc' = [pc EXCEPT ![t] = "respond"]
                   /\ calls' = Append(calls,
                         [fn |-> "weekly_series",
                          args |-> << l.mri, l.seed + 7, l.deep_work, l.context_switching,
                                      l.recovery_breaks, l.overload_hours >>,
                          result |-> [labels |-> labels, mri |-> l.mri_series,
                                      load |-> load_series]])
              ELSE /\ pc' = [pc EXCEPT ![t] = "wk_drift"]
                   /\ calls' = calls
    /\ UNCHANGED << gen, quota, history, riskVars, signupVars >>

\* Lines 160-172: the response leaves; the thread takes the next request.
Respond(t) ==
    /\ pc[t] = "respond"
    /\ Schedule(t)
    /\ history' = Append(history, [payload |-> loc[t].payload, response |-> Response(loc[t])])
    /\ pc' = [pc EXCEPT ![t] = "idle"]
    /\ loc' = [loc EXCEPT ![t] = NoLocals]
    /\ UNCHANGED << rng, gen, quota, calls, riskVars, signupVars >>

\* A client sends thread t one of the payloads of inputs.
Arrive(t, inputs) ==
    /\ pc[t] = "idle"
    /\ quota > 0
    /\ \E payload \in inputs : Begin(t, payload)

\* A client sends thread t the scenario, or any payload that gives at most
\* MaxPresent keys values of Vals.
ArriveAny(t) ==
    /\ pc[t] = "idle"
    /\ quota > 0
    /\ \E S \in KeySubsets : \E f \in [S -> Vals] :
          \/ Begin(t, PayloadOf(S, f))
          \/ S = {} /\ Begin(t, Scenario)

\* The steps of a request under way in thread t.
Serve(t) ==
    \/ FcSeed(t)
    \/ FcDraw(t)
    \/ WkSeed(t)
    \/ WkDrift(t)
    \/ WkLoad(t)
    \/ Respond(t)

\* ----------------------------------------------------------------- signup
\* Signups the clients send in SpecSignup.
MaxSignups == 2

\* The email fields the clients send, and str(...).strip().lower() of each.
RawEmails == { "a@gmail.com", " A@Gmail.com", "b@gmail.com", "c@yahoo.com", "" }
StripLower(raw) == IF raw = " A@Gmail.com" THEN "a@gmail.com" ELSE raw

\* Line 229: "@gmail.com" in email.
HasGmail(email) == email \in { "a@gmail.com", "b@gmail.com" }

Usernames == { "ann", "bob" }
Passwords == { "pw", "" }

\* users.json: absent, open and truncated, or holding a JSON object.
Missing == [state |-> "missing", users |-> << >>]
Truncated == [state |-> "truncated", users |-> << >>]
Stored(users) == [state |-> "json", users |-> users]

\* load_users(): {} when the file is absent or does not parse.
load_users(file) == IF file.state = "json" THEN file.users ELSE << >>

\* users[email] = {"username": username, "password": password}.
Put(users, email, username, password) ==
    [e \in DOMAIN users \cup {email} |->
        IF e = email THEN [username |-> username, password |-> password] ELSE users[e]]

NoSignup == [pc |-> "idle", username |-> "", email |-> "", password |-> "", users |-> << >>]

SignupsBegun == Len(signup_log) + Cardinality({ t \in Threads : signup[t].pc # "idle" })

\* Lines 222-236: a signup arrives at thread t; it is validated, the file is
\* loaded and the email looked up.  An accepted one goes on to save_users.
SignupBegin(t, username, raw_email, password) ==
    /\ signup[t].pc = "idle"
    /\ SignupsBegun < MaxSignups
    /\ LET email == StripLower(raw_email)
           users == load_users(users_file)
           reply(status) == [status |-> status, username |-> username, email |-> email]
       IN  IF username = "" \/ email = "" \/ password = "" \/ ~HasGmail(email)
           THEN /\ signup_log' = Append(signup_log, reply(400))
                /\ signup' = signup
           ELSE IF email \in DOMAIN users
           THEN /\ signup_log' = Append(signup_log, reply(409))
                /\ signup' = signup
           ELSE /\ signup_log' = signup_log
                /\ signup' = [signup EXCEPT ![t] =
                                [pc |-> "open", username |-> username, email |-> email,
                                 password |-> password,
                                 users |-> Put(users, email, username, password)]]
    /\ UNCHANGED << users_file, predictVars, riskVars >>

\* Line 31, write_text: the file is opened for writing, which truncates it.
SignupOpen(t) ==
    /\ signup[t].pc = "open"
    /\ users_file' = Truncated
    /\ signup' = [signup EXCEPT ![t].pc = "write"]
    /\ UNCHANGED << signup_log, predictVars, riskVars >>

\* Lines 31 and 238: the JSON is written and the 200 returned.
SignupWrite(t) ==
    /\ signup[t].pc = "write"
    /\ users_file' = Stored(signup[t].users)
    /\ signup_log' = Append(signup_log,
                            [status |-> 200, username |-> signup[t].username,
                             email |-> signup[t].email])
    /\ signup' = [signup EXCEPT ![t] = NoSignup]
    /\ UNCHANGED << predictVars, riskVars >>

\* ------------------------------------------------------------ risk_package
\* A direct call risk_package(tier_in).
Classify ==
    /\ tier_out = << >>
    /\ tier_out' = << risk_package(tier_in) >>
    /\ UNCHANGED << tier_in, predictVars, signupVars >>

\* ---------------------------------------------------------- specifications
DefaultGen == << 0, 1 >>

PredictInit(requests) ==
    /\ pc = [t \in Threads |-> "idle"]
    /\ loc = [t \in Threads |-> NoLocals]
    /\ rng \in { Seeded(s) : s \in BootSeeds }
    /\ quota = requests
    /\ history = << >>
    /\ calls = << >>
    /\ running = 1
    /\ switches = 0

RiskOff ==
    /\ tier_in = 0
    /\ tier_out = << >>

SignupOff ==
    /\ users_file = Missing
    /\ signup = [t \in Threads |-> NoSignup]
    /\ signup_log = << >>

\* One /predict request, any payload of ArriveAny.
Init ==
    /\ PredictInit(1)
    /\ gen = DefaultGen
    /\ RiskOff
    /\ SignupOff

Next ==
    \/ ArriveAny(1)
    \/ Serve(1)

Spec == Init /\ [][Next]_vars

\* MaxReqs /predict requests one after the other, under every surrogate.
InitSeq ==
    /\ PredictInit(MaxReqs)
    /\ gen \in Gens
    /\ RiskOff
    /\ SignupOff

NextSeq ==
    \/ Arrive(1, SeqPayloads)
    \/ Serve(1)

SpecSeq == InitSeq /\ [][NextSeq]_vars

\* Two /predict requests in two threads of the threaded server.
InitConc ==
    /\ PredictInit(Cardinality(Threads))
    /\ gen = DefaultGen
    /\ RiskOff
    /\ SignupOff

NextConc ==
    \E t \in Threads :
        \/ Arrive(t, SeqPayloads)
        \/ Serve(t)

SpecConc == InitConc /\ [][NextConc]_vars

\* risk_package on every integer of -RiskSpan .. 100 + RiskSpan.
InitRisk ==
    /\ PredictInit(0)
    /\ gen = DefaultGen
    /\ tier_in \in (0 - RiskSpan)..(100 + RiskSpan)
    /\ tier_out = << >>
    /\ SignupOff

NextRisk == Classify

SpecRisk == InitRisk /\ [][NextRisk]_vars

\* MaxSignups /auth/signup requests in the threads of the threaded server.
InitSignup ==
    /\ PredictInit(0)
    /\ gen = DefaultGen
    /\ RiskOff
    /\ SignupOff

NextSignup ==
    \E t \in Threads :
        \/ \E username \in Usernames, raw_email \in RawEmails, password \in Passwords :
               SignupBegin(t, username, raw_email, password)
        \/ SignupOpen(t)
        \/ SignupWrite(t)

SpecSignup == InitSignup /\ [][NextSignup]_vars

\* ============================================================== properties
\* The present values of a payload are all JSON numbers.
AllNumbers(payload) == \A k \in KeySet : payload[k].kind \in {"absent", "num", "huge"}

\* The present values of a payload are all finite numbers.
AllFinite(payload) == \A k \in KeySet : payload[k].kind \in {"absent", "num"}

\* The recognised keys whose present value float() cannot interpret.
BadKeys(payload) == { k \in KeySet : payload[k].kind \in {"str", "null"} }

\* C1: every payload whose recognised values are all numbers, of any sign and
\* magnitude, gets an integer MRI between 0 and 100.
C1_MriInRange ==
    \A i \in DOMAIN history :
        AllNumbers(history[i].payload) =>
            /\ history[i].response.status = 200
            /\ history[i].response.mri \in 0..100

\* C2: risk_package maps every integer to exactly one tier, lower bounds
\* inclusive: 75 and above Healthy, 55 to 74 At Risk, below 55 Danger, also for
\* integers outside 0..100.
C2_TierPartition ==
    tier_out # << >> =>
        LET level == tier_out[1].level
        IN  /\ level \in {"healthy", "at-risk", "danger"}
            /\ (level = "healthy") <=> (tier_in >= 75)
            /\ (level = "at-risk") <=> (55 <= tier_in /\ tier_in < 75)
            /\ (level = "danger") <=> (tier_in < 55)
            /\ (tier_out[1].label = "Healthy") <=> (tier_in >= 75)
            /\ (tier_out[1].label = "At Risk") <=> (55 <= tier_in /\ tier_in < 75)

C2_Witness ==
    /\ tier_in = 75
    /\ tier_out # << >>
    /\ tier_out[1].level = "healthy"

\* What /predict returns for a payload when its request runs alone: the d-th
\* forecast draw is draw d - 1 of seed's stream, the d-th day of the weekly
\* series takes draws 2(d - 1) and 2(d - 1) + 1 of the stream of seed + 7.
AloneForecast(g, l) ==
    [d \in 1..Days |->
        ForecastDay(l.risk_score, d - 1, uniform(-4, 4, Level(g, [seed |-> l.seed, n |-> d - 1])),
                    l.context_switching, l.recovery_breaks, l.overload_hours)]

AloneDayMri(g, l, d) ==
    DayMri(l.mri, uniform(-6, 6, Level(g, [seed |-> l.seed + 7, n |-> 2 * (d - 1)])),
           l.deep_work, l.context_switching, l.recovery_breaks, l.overload_hours)

AloneWeekly(g, l) ==
    [labels |-> labels,
     mri |-> [d \in 1..Days |-> Trunc(AloneDayMri(g, l, d))],
     load |-> [d \in 1..Days |->
                  DayLoad(AloneDayMri(g, l, d),
                          uniform(-5, 5, Level(g, [seed |-> l.seed + 7, n |-> 2 * (d - 1) + 1])),
                          l.context_switching, l.recovery_breaks, l.overload_hours)]]

\* C3: under every interleaving of two concurrent /predict requests, each
\* request is returned the forecast and the weekly series it gets when it
\* runs alone.
C3_ConcurrentAsAlone ==
    \A i \in DOMAIN history :
        history[i].response.status = 200 =>
            LET l == Prepare(history[i].payload).val
            IN  /\ history[i].response.forecast = AloneForecast(gen, l)
                /\ history[i].response.weekly = AloneWeekly(gen, l)

\* C4: two build_forecast calls with identical arguments, or two
\* weekly_series calls with identical arguments, return identical sequences
\* whatever generator calls ran in between; repeated sequential /predict
\* requests with the same payload get identical responses.
C4_SequentialDeterminism ==
    /\ \A i, j \in DOMAIN calls :
          (calls[i].fn = calls[j].fn /\ calls[i].args = calls[j].args)
              => calls[i].result = calls[j].result
    /\ \A i, j \in DOMAIN history :
          history[i].payload = history[j].payload
              => history[i].response = history[j].response

C4_Witness ==
    /\ Len(history) = 3
    /\ history[1].payload = history[3].payload
    /\ history[2].payload # history[1].payload
    /\ \A i \in 1..3 : history[i].response.status = 200
    /\ history[2].response.forecast # history[1].response.forecast

InRange(series) == Len(series) = Days /\ \A d \in 1..Len(series) : series[d] \in 0..100

\* C5: forecast, weekly.mri and weekly.load each have exactly 7 elements, all
\* integers between 0 and 100, for every value the draws take in their ranges,
\* and weekly.labels is Mon .. Sun.
C5_SeriesInRange ==
    /\ \A i \in DOMAIN calls :
          IF calls[i].fn = "build_forecast"
          THEN InRange(calls[i].result.forecast)
          ELSE /\ InRange(calls[i].result.mri)
               /\ InRange(calls[i].result.load)
               /\ calls[i].result.labels = << "Mon", "Tue", "Wed", "Thu", "Fri", "Sat", "Sun" >>
    /\ \A i \in DOMAIN history :
          history[i].response.status = 200 =>
              /\ InRange(history[i].response.forecast)
              /\ InRange(history[i].response.weekly.mri)
              /\ InRange(history[i].response.weekly.load)
              /\ history[i].response.weekly.labels = << "Mon", "Tue", "Wed", "Thu", "Fri", "Sat", "Sun" >>

C5_Witness ==
    \E i \in DOMAIN history :
        /\ history[i].response.status = 200
        /\ history[i].response.forecast[Days] = 100
        /\ \E d \in 1..Days :
              /\ history[i].response.weekly.mri[d] = 0
              /\ history[i].response.weekly.load[d] = 100

\* The first key, in the order compute_mri reads them, whose value float()
\* cannot interpret.
FirstBadKey(payload) ==
    Keys[CHOOSE i \in 1..Len(Keys) :
            /\ Keys[i] \in BadKeys(payload)
            /\ \A j \in 1..(i - 1) : Keys[j] \notin BadKeys(payload)]

\* C6 as stated: a present value that is no real number fails the request
\* with an InvalidMetric error that names the offending key, and no score is
\* produced.
C6_InvalidMetricNamesKey ==
    \A i \in DOMAIN history :
        BadKeys(history[i].payload) # {} =>
            /\ history[i].response.status = 500
            /\ history[i].response.error.type = "InvalidMetric"
            /\ history[i].response.error.arg \in BadKeys(history[i].payload)

\* C6 as amended: a present value that is no real number fails the request
\* with Python's own conversion error for the first such key read (ValueError
\* for a string, TypeError for null), which carries the value and not the key;
\* no score is produced and no default is substituted.
C6_BadValueRaises ==
    \A i \in DOMAIN history :
        BadKeys(history[i].payload) # {} =>
            LET bad == history[i].payload[FirstBadKey(history[i].payload)]
            IN  /\ history[i].response.status = 500
                /\ history[i].response.error.type =
                       (IF bad.kind = "str" THEN "ValueError" ELSE "TypeError")
                /\ history[i].response.error.arg = bad.kind
                /\ history[i].response.error.arg \notin KeySet

C6_Witness ==
    \E i \in DOMAIN history :
        /\ history[i].payload["hrv"] = BadStr
        /\ history[i].payload["sleep"] = Num(250)
        /\ history[i].response.status = 500
        /\ history[i].response.error.type = "ValueError"

\* C7: metric extraction is the only step of /predict that can fail: whenever
\* compute_mri succeeds on the payload, the request is answered 200.
C7_OnlyExtractionFails ==
    \A i \in DOMAIN history :
        compute_mri(history[i].payload).ok => history[i].response.status = 200

\* mri + risk_score + stress as specified, in ten-thousandths: risk_score is
\* clamp(100 - mri + context_switching*0.12 + overload_hours*0.18
\* - recovery_breaks*0.1), the stress defaults to 5.
SeedSum(l) ==
    LET v(key, default) == Get(l.payload, key, default).val
        risk_score == Max2(0, Min2(100 * Unit,
                          100 * Unit - l.mri * Unit + v("context_switching", 50) * 12
                          + v("overload_hours", 50) * 18 - v("recovery_breaks", 40) * 10))
    IN  l.mri * Unit + risk_score + v("stress", 5) * 100

\* The generator was just seeded by build_forecast, by weekly_series.
ForecastSeeded(t) == pc[t] = "fc_draw" /\ Len(loc[t].forecast) = 0
WeeklySeeded(t) == pc[t] = "wk_drift" /\ Len(loc[t].mri_series) = 0

\* C8 as stated: the seed build_forecast is given is floor(mri + risk_score +
\* stress) for every numeric stress, negative and fractional ones included,
\* and weekly_series is given that seed + 7.
C8_SeedIsFloor ==
    \A t \in Threads :
        /\ ForecastSeeded(t) => rng.seed = Floor(SeedSum(loc[t]))
        /\ WeeklySeeded(t) => rng.seed = Floor(SeedSum(loc[t])) + 7

\* C8 as amended: the seed build_forecast is given is mri + risk_score +
\* stress truncated toward zero (the floor only when the sum is not negative),
\* and weekly_series is given that seed + 7.
C8_SeedIsTruncation ==
    \A t \in Threads :
        LET sum == SeedSum(loc[t])
            toward_zero == IF sum >= 0 THEN sum \div Unit ELSE -((-sum) \div Unit)
        IN  /\ ForecastSeeded(t) => rng.seed = toward_zero
            /\ WeeklySeeded(t) => rng.seed = toward_zero + 7

C8_Witness ==
    /\ ForecastSeeded(1)
    /\ loc[1].payload["stress"] = Num(-20050)
    /\ SeedSum(loc[1]) < 0
    /\ SeedSum(loc[1]) % Unit # 0
    /\ rng.seed = Floor(SeedSum(loc[1])) + 1

\* The specified linear model, in ten-thousandths, each missing key
\* replaced by its documented default.
RefScore(payload) ==
    LET v(key, default) == IF payload[key].kind = "absent" THEN default * 100 ELSE payload[key].val
    IN  100 * Unit
        - (v("switching", 5) * 400 + v("stress", 5) * 500 + v("workload", 5) * 400)
        + (v("sleep", 5) * 500 + v("hrv", 5) * 300)
        + v("deep_work", 50) * 10 + v("deep_work_hours", 4) * 150
        - v("context_switching", 50) * 15 - v("context_hours", 3) * 200
        + v("recovery_breaks", 40) * 12 + v("recovery_hours", 2) * 200
        - v("overload_hours", 50) * 20 - v("overload_hours_count", 4) * 250

\* C9: over finite numeric payloads the MRI is the specified linear model,
\* rounded to the nearest integer and then clamped to 0..100; the low-stress
\* scenario is Healthy and the empty payload always gets the MRI 61.
C9_LinearModel ==
    \A i \in DOMAIN history :
        AllFinite(history[i].payload) =>
            /\ history[i].response.status = 200
            /\ history[i].response.mri =
                   Max2(0, Min2(100, RoundHalfEven(RefScore(history[i].payload))))
            /\ history[i].payload = Scenario => history[i].response.risk.label = "Healthy"
            /\ history[i].payload = EmptyPayload => history[i].response.mri = 61

C9_Witness ==
    \E i \in DOMAIN history :
        /\ history[i].payload = Scenario
        /\ history[i].response.status = 200
        /\ history[i].response.mri = 100
        /\ history[i].response.risk.label = "Healthy"

\* C10: under every interleaving of concurrent signups no accepted signup is
\* lost: once the requests are answered, every email answered 200 is in the
\* stored user map with the username it signed up with, and no email was
\* answered 200 twice.
C10_NoSignupLost ==
    (\A t \in Threads : signup[t].pc = "idle") =>
        /\ \A i \in DOMAIN signup_log :
              signup_log[i].status = 200 =>
                  /\ users_file.state = "json"
                  /\ signup_log[i].email \in DOMAIN users_file.users
                  /\ users_file.users[signup_log[i].email].username = signup_log[i].username
        /\ \A i, j \in DOMAIN signup_log :
              (i # j /\ signup_log[i].status = 200 /\ signup_log[j].status = 200)
                  => signup_log[i].email # signup_log[j].email

====
